---- MODULE Spec2Model ----
(***************************************************************************)
(* BlenderColorCamera (drake_blender_visualizer/blender_visualizer.py):    *)
(* the LeafSystem that mirrors a SceneGraph into a Blender server.         *)
(*                                                                         *)
(* The state is the object's fields plus the ordered stream of remote      *)
(* calls it has sent through BlenderServerInterface.  load() (run by the   *)
(* initialization event) and _DoPublish (one periodic tick) are the two    *)
(* operations.  Strings that the code parses, formats or matches are       *)
(* sequences of one-character strings, so that _parse_name,                *)
(* _format_geom_name, the "%02d_%08d" file names and re.match are computed *)
(* on characters.  Rigid transforms are the planar ones whose rotation is  *)
(* a multiple of a quarter turn about z: [r, x, y].                        *)
(***************************************************************************)
EXTENDS Integers, Sequences, FiniteSets, TLC

\* ------------------------------------------------------------------ bounds
\* links in one load message
MaxLinks == 2
\* geometry records in one load message, all links together
MaxGeoms == 2
\* ticks of _DoPublish in one session
MaxTicks == 2
\* cameras of the demonstration configuration
MaxCams == 2

\* ------------------------------------------------------------- transforms
Identity == [r |-> 0, x |-> 0, y |-> 0]

\* v = <<x, y>> turned by q quarter turns about z
Rotate(q, v) ==
    CASE q % 4 = 0 -> v
      [] q % 4 = 1 -> <<0 - v[2], v[1]>>
      [] q % 4 = 2 -> <<0 - v[1], 0 - v[2]>>
      [] OTHER     -> <<v[2], 0 - v[1]>>

\* the product A . B of two rigid transforms (4x4 matrix product)
multiply(A, B) ==
    LET v == Rotate(A.r, <<B.x, B.y>>)
    IN  [r |-> (A.r + B.r) % 4, x |-> A.x + v[1], y |-> A.y + v[2]]

\* ---------------------------------------------------------------- strings
delim == <<":", ":">>

Digit(d) ==
    CASE d = 0 -> "0" [] d = 1 -> "1" [] d = 2 -> "2" [] d = 3 -> "3"
      [] d = 4 -> "4" [] d = 5 -> "5" [] d = 6 -> "6" [] d = 7 -> "7"
      [] d = 8 -> "8" [] OTHER -> "9"

\* "{}".format(n) / "%d" % n for a natural number
RECURSIVE str(_)
str(n) == IF n < 10 THEN <<Digit(n)>> ELSE str(n \div 10) \o <<Digit(n % 10)>>

\* "%0<w>d" % n: zero-padded on the left to at least w characters
RECURSIVE ZeroPad(_, _)
ZeroPad(s, w) == IF Len(s) >= w THEN s ELSE ZeroPad(<<"0">> \o s, w)

\* name.index("::"), 1-based; 0 when the delimiter does not occur
RECURSIVE IndexFrom(_, _)
IndexFrom(name, p) ==
    IF p + 1 > Len(name) THEN 0
    ELSE IF SubSeq(name, p, p + 1) = delim THEN p
    ELSE IndexFrom(name, p + 1)

\* the assertion of _parse_name: `assert delim in name`
HasDelim(name) == IndexFrom(name, 1) # 0

\* _parse_name: split on the first occurrence of "::"
parse_name(name) ==
    LET pos == IndexFrom(name, 1)
    IN  [source_name |-> SubSeq(name, 1, pos - 1),
         frame_name  |-> SubSeq(name, pos + 2, Len(name))]

\* a plausible slip: the model instance left out of the derived name
format_geom_name_no_model(source_name, frame_name, model_id, i) ==
    source_name \o delim \o frame_name \o delim \o str(i)

\* _format_geom_name: "{}::{}::{}::{}".format(source, model_id, frame, i)
format_geom_name(source_name, frame_name, model_id, i) ==
    source_name \o delim \o str(model_id) \o delim \o frame_name
        \o delim \o str(i)

\* re.match(pattern, s): the pattern, a sequence of literal characters and
\* ".*" tokens, matches some prefix of s
RECURSIVE match(_, _)
match(pattern, s) ==
    IF pattern = <<>> THEN TRUE
    ELSE IF Head(pattern) = ".*"
         THEN \E k \in 0..Len(s) :
                  match(Tail(pattern), SubSeq(s, k + 1, Len(s)))
         ELSE /\ s # <<>>
              /\ Head(s) = Head(pattern)
              /\ match(Tail(pattern), Tail(s))

\* ----------------------------------------------------------------- inputs
\* Geometry records of the load message (lcmt_viewer_geometry_data): type,
\* color (RGBA, color[4] is the alpha that Python reads as color[3]), the
\* local pose (position and quaternion), and the mesh path.
BoxRed ==
    [type |-> "BOX", color |-> <<1, 0, 0, 1>>,
     tf |-> [r |-> 0, x |-> 1, y |-> 0], string_data |-> <<>>]

SphereCollision ==
    [type |-> "SPHERE", color |-> <<0, 0, 0, 0>>,
     tf |-> [r |-> 0, x |-> 0, y |-> 2], string_data |-> <<>>]

MeshTextured ==
    [type |-> "MESH", color |-> <<1, 1, 1, 1>>,
     tf |-> [r |-> 1, x |-> 0, y |-> 1],
     string_data |-> <<"m", "1", ".", "o", "b", "j">>]

MeshPlain ==
    [type |-> "MESH", color |-> <<0, 1, 0, 1>>,
     tf |-> [r |-> 2, x |-> 1, y |-> 1],
     string_data |-> <<"m", "2", ".", "o", "b", "j">>]

Capsule ==
    [type |-> "CAPSULE", color |-> <<0, 0, 1, 1>>,
     tf |-> [r |-> 3, x |-> 2, y |-> 0], string_data |-> <<>>]

GeomRecords == {BoxRed, SphereCollision, MeshTextured, MeshPlain, Capsule}

\* the files os.path.exists finds: a texture beside m1.obj, none beside m2.obj
ExistingFiles == {<<"m", "1", ".", "p", "n", "g">>}

\* Bodies of the load message: link.name and link.robot_num.  SceneGraph
\* names a link source::frame and gives robot_num the frame group (the
\* model instance); a body is identified by the pair, so the links of one
\* message differ in name or in robot_num.
LinkIds ==
    { [name |-> <<"a", ":", ":", "b", "o", "x">>, robot_num |-> 0],
      [name |-> <<"a", ":", ":", "b", "o", "x">>, robot_num |-> 1],
      [name |-> <<"b", ":", ":", "b", "o", "x">>, robot_num |-> 0] }

\* A link whose name has no delimiter.  load() stops at the first such link
\* and reads nothing of it but the name, so a message that holds one ends
\* with it and the link carries no geometry.
MalformedLink ==
    [name |-> <<"b", "o", "x">>, robot_num |-> 0, geom |-> <<>>]

\* sequences over S of length exactly n
SeqsOfLen(S, n) == [1..n -> S]

\* the geometry lists of k links holding at most `budget` records together
RECURSIVE GeomLists(_, _)
GeomLists(k, budget) ==
    IF k = 0 THEN {<<>>}
    ELSE UNION { { Append(rest, g) :
                     rest \in GeomLists(k - 1, budget - n),
                     g \in SeqsOfLen(GeomRecords, n) } : n \in 0..budget }

\* the sequences of k different link identities
IdLists(k) ==
    { ids \in SeqsOfLen(LinkIds, k) :
        \A i, j \in 1..k : i # j => ids[i] # ids[j] }

\* the lcmt_viewer_load_robot message of these links: link[i] has name,
\* robot_num and geom (num_links and num_geom are the lengths)
LoadMessage(ids, geoms, malformed) ==
    [i \in 1..Len(ids) |->
        [name |-> ids[i].name, robot_num |-> ids[i].robot_num,
         geom |-> geoms[i]]]
    \o (IF malformed THEN <<MalformedLink>> ELSE <<>>)

\* material override rules: (regex, arguments of register_material)
RuleBox ==
    [pattern |-> <<".*", "0", ":", ":", "b", "o", "x", ".*">>,
     args |-> [material_type |-> "CC0_texture", path |-> <<"W", "1">>]]

RuleAny ==
    [pattern |-> <<".*">>,
     args |-> [material_type |-> "CC0_texture", path |-> <<"W", "2">>]]

\* the camera poses of the demonstration, one per camera index
CameraPose(i) == [r |-> i % 4, x |-> i, y |-> 1]

\* Constructor arguments: the defaults of __init__ (one camera at the
\* identity, no overrides, identity global transform) and the shape of the
\* demonstration (several cameras, overlapping override rules in either
\* order, a global transform turned a quarter turn about z).
Configurations ==
    { [camera_tfs |-> <<Identity>>, material_overrides |-> <<>>,
       global_transform |-> Identity] }
    \cup
    { [camera_tfs |-> [i \in 1..MaxCams |-> CameraPose(i)],
       material_overrides |-> ov,
       global_transform |-> [r |-> 1, x |-> 0, y |-> 0]] :
      ov \in { <<RuleBox, RuleAny>>, <<RuleAny, RuleBox>> } }

\* body poses a pose bundle carries
Poses == { [r |-> 0, x |-> 1, y |-> 0], [r |-> 1, x |-> 0, y |-> 3] }

\* ------------------------------------------------------------------ state
VARIABLES
    load_robot_msg,     \* the message DispatchLoadMessage publishes
    material_overrides, \* self.material_overrides
    camera_tfs,         \* self.camera_tfs
    global_transform,   \* self.global_transform
    lcm_visualization,  \* the pose bundle at the input port (line 90)
    pc,                 \* "constructed", "loaded", or, once an exception
                        \* has left load() or _DoPublish and ended the
                        \* run, "load_failed" or "publish_failed"
    stream,             \* the remote calls sent so far, in order
    num_link_geometries_by_link_name,
    link_subgeometry_local_tfs_by_link_name,
    current_publish_num,
    published_scene,
    texture_returns,    \* what send_remote_call returned to line 241 for
                        \* the texture registrations of load()
    failed_calls        \* the positions in stream of the calls of a tick
                        \* that the renderer answered with a failure

vars ==
    <<load_robot_msg, material_overrides, camera_tfs, global_transform,
      lcm_visualization, pc, stream, num_link_geometries_by_link_name,
      link_subgeometry_local_tfs_by_link_name, current_publish_num,
      published_scene, texture_returns, failed_calls>>

\* ----------------------------------------------------------- remote calls
\* The message that bsi.send_remote_call / bsi.render_image puts on the
\* wire, with two bookkeeping fields: tick (0 for load(), k for the k-th
\* _DoPublish) and body (the index of the link or pose-bundle frame the
\* call was issued for, 0 for none).
RemoteCall(fn, name, type, path, color, material, tf, tick, body) ==
    [fn |-> fn, name |-> name, type |-> type, path |-> path,
     color |-> color, material |-> material, tf |-> tf, tick |-> tick,
     body |-> body]

\* d[k] = v on a Python dict
Put(d, k, v) == [n \in DOMAIN d \cup {k} |-> IF n = k THEN v ELSE d[n]]

EmptyDict == [n \in {} |-> 0]

\* ----------------------------------------------------------------- load()
\* string_data[0:-3] + ext: the mesh path with its last three characters
\* replaced
SiblingPath(string_data, ext) ==
    SubSeq(string_data, 1, Len(string_data) - 3) \o ext

\* a plausible slip: a geometry of an unknown type drawn as a cube
ObjectTypeDefaultCube(type) ==
    CASE type = "SPHERE" -> "sphere"
      [] type = "CYLINDER" -> "cylinder"
      [] type = "MESH" -> "obj"
      [] OTHER -> "cube"

\* the Blender primitive of the supported geometry types (lines 187-231)
ObjectType(type) ==
    CASE type = "BOX" -> "cube"
      [] type = "SPHERE" -> "sphere"
      [] type = "CYLINDER" -> "cylinder"
      [] type = "MESH" -> "obj"
      [] OTHER -> ""

\* lines 178-185: one register_material per override whose regex matches the
\* geometry name, in declaration order (the loop has no break)
RECURSIVE OverrideCalls(_, _, _, _)
OverrideCalls(overrides, geom_name, material_key, body) ==
    IF overrides = <<>> THEN <<>>
    ELSE (IF match(Head(overrides).pattern, geom_name)
          THEN << RemoteCall("register_material", material_key,
                             Head(overrides).args.material_type,
                             Head(overrides).args.path, <<>>, <<>>,
                             Identity, 0, body) >>
          ELSE <<>>)
         \o OverrideCalls(Tail(overrides), geom_name, material_key, body)

\* lines 239-245: the texture probe of a mesh whose key no override took
TextureCalls(geom, material_key, material_key_assigned, body) ==
    IF /\ geom.type = "MESH"
       /\ ~material_key_assigned
       /\ SiblingPath(geom.string_data, <<"p", "n", "g">>) \in ExistingFiles
    THEN << RemoteCall("register_material", material_key, "color_texture",
                       SiblingPath(geom.string_data, <<"p", "n", "g">>),
                       <<>>, <<>>, Identity, 0, body) >>
    ELSE <<>>

\* a plausible slip: the flat color registered whether or not the key is
\* already assigned
ColorCallsAlways(geom, material_key, material_key_assigned, body) ==
    << RemoteCall("register_material", material_key, "color", <<>>,
                  geom.color, <<>>, Identity, 0, body) >>

\* lines 252-257: the flat-color fallback
ColorCalls(geom, material_key, material_key_assigned, body) ==
    IF ~material_key_assigned
    THEN << RemoteCall("register_material", material_key, "color", <<>>,
                       geom.color, <<>>, Identity, 0, body) >>
    ELSE <<>>

\* do_load_geom (lines 190-231): the register_object call of the geometry
ObjectCall(geom, geom_name, material_key, body) ==
    RemoteCall("register_object", <<"obj_">> \o geom_name,
               ObjectType(geom.type),
               IF geom.type = "MESH"
               THEN SiblingPath(geom.string_data, <<"o", "b", "j">>)
               ELSE <<>>,
               <<>>, material_key, geom.tf, 0, body)

\* a plausible slip: the object loaded before its fallback material
GeomSequenceObjectFirst(overrides, texture, object, color) ==
    overrides \o texture \o object \o color

\* the order of one geometry's calls (lines 178-260): overrides, texture
\* probe, flat color, and last the object
GeomSequence(overrides, texture, object, color) ==
    overrides \o texture \o color \o object

\* Lines 158-260 for geom[j] (j counts from 0 as in the code).  accepted is
\* what send_remote_call returns for the texture registration (line 241).
GeomCalls(link, j, body, accepted) ==
    LET geom == link.geom[j + 1]
        pn == parse_name(link.name)
        geom_name == format_geom_name(pn.source_name, pn.frame_name,
                                      link.robot_num, j)
        material_key == <<"material_">> \o geom_name
        ov == OverrideCalls(material_overrides, geom_name, material_key, body)
        tex == TextureCalls(geom, material_key, ov # <<>>, body)
        assigned == IF tex # <<>> THEN accepted ELSE ov # <<>>
    IN  IF geom.color[4] = 0 THEN <<>>
        ELSE IF ObjectType(geom.type) = "" THEN ov
        ELSE GeomSequence(ov, tex,
                          << ObjectCall(geom, geom_name, material_key, body) >>,
                          ColorCalls(geom, material_key, assigned, body))

\* lines 156-169: the local transforms of the geometries whose alpha is not
\* zero, appended before the type of the geometry is looked at
RECURSIVE LocalTfs(_)
LocalTfs(geoms) ==
    IF geoms = <<>> THEN <<>>
    ELSE (IF Head(geoms).color[4] = 0 THEN <<>> ELSE <<Head(geoms).tf>>)
         \o LocalTfs(Tail(geoms))

RECURSIVE LinkCalls(_, _, _, _)
LinkCalls(link, j, body, accepted) ==
    IF j >= Len(link.geom) THEN <<>>
    ELSE GeomCalls(link, j, body, accepted)
         \o LinkCalls(link, j + 1, body, accepted)

\* Lines 151-262 from link i on.  acc holds the calls sent and the two
\* dictionaries so far; ok turns FALSE when _parse_name's assertion fails,
\* which ends load() there.
RECURSIVE LoadLinks(_, _, _)
LoadLinks(i, accepted, acc) ==
    IF i > Len(load_robot_msg) THEN acc
    ELSE LET link == load_robot_msg[i]
         IN  IF ~HasDelim(link.name) THEN [acc EXCEPT !.ok = FALSE]
             ELSE LoadLinks(i + 1, accepted,
                    [calls |-> acc.calls \o LinkCalls(link, 0, i, accepted),
                     num |-> Put(acc.num, link.name, Len(link.geom)),
                     tfs |-> Put(acc.tfs, link.name, LocalTfs(link.geom)),
                     ok |-> TRUE])

\* lines 264-277: register_camera then configure_rendering, camera by camera
RECURSIVE CameraCalls(_)
CameraCalls(i) ==
    IF i >= Len(camera_tfs) THEN <<>>
    ELSE << RemoteCall("register_camera", <<"cam_">> \o str(i), "", <<>>,
                       <<>>, <<>>,
                       multiply(global_transform, camera_tfs[i + 1]), 0, 0),
            RemoteCall("configure_rendering", <<"cam_">> \o str(i), "JPEG",
                       <<>>, <<>>, <<>>, Identity, 0, 0) >>
         \o CameraCalls(i + 1)

InitializeSceneCall ==
    RemoteCall("initialize_scene", <<>>, "", <<>>, <<>>, <<>>, Identity, 0, 0)

EnvironmentMapCall ==
    RemoteCall("set_environment_map", <<>>, "",
               <<"shanghai_bund_4k.hdr">>, <<>>, <<>>, Identity, 0, 0)

\* a plausible slip: the environment map set before the cameras
LoadSequenceEnvFirst(geometry, cameras) ==
    <<InitializeSceneCall>> \o geometry \o <<EnvironmentMapCall>> \o cameras

\* the phases of a load() that runs to its end (lines 141, 151-262,
\* 264-277, 279-282)
LoadSequence(geometry, cameras) ==
    <<InitializeSceneCall>> \o geometry \o cameras \o <<EnvironmentMapCall>>

\* What bsi.send_remote_call returns to load(): whether the renderer
\* accepted the call.
Responses == BOOLEAN

\* a plausible slip: load() declared as an event that fires again after
\* publishing has begun
LoadEnabledRepeatedly == pc \in {"constructed", "loaded"}

\* lines 110-116: load() is the callback of the initialization event, which
\* the simulator fires once, before any publish
LoadEnabled == pc = "constructed"

\* load() (lines 134-282)
Load ==
    /\ LoadEnabled
    /\ \E accepted \in Responses :
         \E r \in { LoadLinks(1, accepted,
                      [calls |-> <<>>, num |-> EmptyDict, tfs |-> EmptyDict,
                       ok |-> TRUE]) } :
             /\ stream' = stream \o
                          (IF r.ok
                           THEN LoadSequence(r.calls, CameraCalls(0))
                           ELSE <<InitializeSceneCall>> \o r.calls)
             /\ num_link_geometries_by_link_name' = r.num
             /\ link_subgeometry_local_tfs_by_link_name' = r.tfs
             /\ pc' = IF r.ok THEN "loaded" ELSE "load_failed"
             /\ texture_returns' =
                    IF \E k \in 1..Len(r.calls) :
                           r.calls[k].type = "color_texture"
                    THEN {accepted} ELSE {}
    /\ UNCHANGED <<load_robot_msg, material_overrides, camera_tfs,
                   global_transform, lcm_visualization, current_publish_num,
                   published_scene, failed_calls>>

\* ------------------------------------------------------------ _DoPublish
\* a plausible slip: the pose integrated over the ticks instead of set
UpdateCallDrifting(geom_name, offset, tick, body) ==
    RemoteCall("update_parameters", <<"obj_">> \o geom_name, "QUATERNION",
               <<>>, <<>>, <<>>, [offset EXCEPT !.x = @ + tick], tick, body)

\* lines 304-309: the update_parameters call of one geometry
UpdateCall(geom_name, offset, tick, body) ==
    RemoteCall("update_parameters", <<"obj_">> \o geom_name, "QUATERNION",
               <<>>, <<>>, <<>>, offset, tick, body)

\* Lines 296-309 for one frame of the pose bundle, from index j on: the
\* loop runs j over range(num_link_geometries_by_link_name[link_name]) and
\* reads link_subgeometry_local_tfs_by_link_name[link_name][j]; an index
\* past the end of that list raises IndexError, which ends the tick.
RECURSIVE FrameUpdates(_, _, _, _, _)
FrameUpdates(frame, j, tick, body, acc) ==
    IF j >= num_link_geometries_by_link_name[frame.name] THEN acc
    ELSE IF j >= Len(link_subgeometry_local_tfs_by_link_name[frame.name])
    THEN [acc EXCEPT !.ok = FALSE]
    ELSE LET pn == parse_name(frame.name)
             offset ==
                 multiply(global_transform,
                     multiply(frame.pose,
                         link_subgeometry_local_tfs_by_link_name[frame.name][j + 1]))
             geom_name == format_geom_name(pn.source_name, pn.frame_name,
                                           frame.model_instance_id, j)
         IN  FrameUpdates(frame, j + 1, tick, body,
                 [acc EXCEPT !.calls = @ \o
                      << UpdateCall(geom_name, offset, tick, body) >>])

\* Lines 291-309 from frame_i on (frame_i counts from 1 here).  A name
\* without delimiter fails _parse_name's assertion, a name load() never
\* stored raises KeyError: both end the tick.
RECURSIVE PublishFrames(_, _, _, _)
PublishFrames(pose_bundle, frame_i, tick, acc) ==
    IF frame_i > Len(pose_bundle) \/ ~acc.ok THEN acc
    ELSE LET frame == pose_bundle[frame_i]
         IN  IF \/ ~HasDelim(frame.name)
                \/ frame.name \notin DOMAIN num_link_geometries_by_link_name
             THEN [acc EXCEPT !.ok = FALSE]
             ELSE PublishFrames(pose_bundle, frame_i + 1, tick,
                      FrameUpdates(frame, 0, tick, frame_i, acc))

\* a plausible slip: the file named by the camera index alone
RenderPathCameraOnly(i, publish_num) ==
    <<"/tmp/drake_blender_vis_scene_render_">>
        \o ZeroPad(str(i), 2) \o <<".jpg">>

\* line 315: "/tmp/drake_blender_vis_scene_render_%02d_%08d.jpg"
\*           % (i, self.current_publish_num)
RenderPath(i, publish_num) ==
    <<"/tmp/drake_blender_vis_scene_render_">>
        \o ZeroPad(str(i), 2) \o <<"_">>
        \o ZeroPad(str(publish_num), 8) \o <<".jpg">>

\* lines 311-317: one render_image per camera, the file named by the camera
\* index and the publish counter
RECURSIVE RenderCalls(_, _)
RenderCalls(i, tick) ==
    IF i >= Len(camera_tfs) THEN <<>>
    ELSE << RemoteCall("render_image", <<"cam_">> \o str(i), "",
                       RenderPath(i, current_publish_num),
                       <<>>, <<>>, Identity, tick, 0) >>
         \o RenderCalls(i + 1, tick)

\* a plausible slip: the snapshot taken on every tick
SaveCallsEveryTick(publish_num, tick) ==
    << RemoteCall("save_current_scene", <<>>, "",
                  <<"/tmp/drake_blender_vis_scene.blend">>, <<>>, <<>>,
                  Identity, tick, 0) >>

\* lines 319-320: save_current_scene when the publish counter is 0
SaveCalls(publish_num, tick) ==
    IF publish_num = 0
    THEN << RemoteCall("save_current_scene", <<>>, "",
                       <<"/tmp/drake_blender_vis_scene.blend">>, <<>>, <<>>,
                       Identity, tick, 0) >>
    ELSE <<>>

\* a plausible slip: the cameras rendered before the poses are pushed
PublishSequenceRenderFirst(updates, renders, save) ==
    renders \o updates \o save

\* the phases of a tick that runs to its end (lines 291-309, 311-317,
\* 319-320)
PublishSequence(updates, renders, save) ==
    updates \o renders \o save

\* The pose bundles SceneGraph hands to the input port: one frame per
\* loaded body, in the order of the load message, named as the link and
\* carrying its model instance, all at one pose drawn from Poses.
PoseBundles ==
    { [i \in 1..Len(load_robot_msg) |->
          [name |-> load_robot_msg[i].name,
           model_instance_id |-> load_robot_msg[i].robot_num,
           pose |-> p]] : p \in Poses }

\* a plausible slip: the tick opening as load() does (lines 149-150), with
\* the cached transforms reset
DoPublishResettingCache(pose_bundle) ==
    /\ pc = "loaded"
    /\ current_publish_num < MaxTicks
    /\ lcm_visualization' = pose_bundle
    /\ link_subgeometry_local_tfs_by_link_name' = EmptyDict
    /\ \E tick \in {current_publish_num + 1} :
         \E u \in { PublishFrames(pose_bundle, 1, tick,
                                  [calls |-> <<>>, ok |-> TRUE]) } :
             IF u.ok
             THEN /\ stream' = stream \o
                        PublishSequence(u.calls, RenderCalls(0, tick),
                                        SaveCalls(current_publish_num, tick))
                  /\ published_scene' =
                        (IF current_publish_num = 0 THEN TRUE
                         ELSE published_scene)
                  /\ current_publish_num' = current_publish_num + 1
                  /\ pc' = pc
             ELSE /\ stream' = stream \o u.calls
                  /\ pc' = "publish_failed"
                  /\ UNCHANGED <<current_publish_num, published_scene>>
    /\ UNCHANGED <<load_robot_msg, material_overrides, camera_tfs,
                   global_transform, num_link_geometries_by_link_name,
                   texture_returns, failed_calls>>

\* _DoPublish (lines 284-325): one tick
DoPublish(pose_bundle) ==
    /\ pc = "loaded"
    /\ current_publish_num < MaxTicks
    /\ lcm_visualization' = pose_bundle
    /\ \E tick \in {current_publish_num + 1} :
         \E u \in { PublishFrames(pose_bundle, 1, tick,
                                  [calls |-> <<>>, ok |-> TRUE]) } :
             IF u.ok
             THEN /\ stream' = stream \o
                        PublishSequence(u.calls, RenderCalls(0, tick),
                                        SaveCalls(current_publish_num, tick))
                  /\ published_scene' =
                        (IF current_publish_num = 0 THEN TRUE
                         ELSE published_scene)
                  /\ current_publish_num' = current_publish_num + 1
                  /\ pc' = pc
             ELSE /\ stream' = stream \o u.calls
                  /\ pc' = "publish_failed"
                  /\ UNCHANGED <<current_publish_num, published_scene>>
    /\ UNCHANGED <<load_robot_msg, material_overrides, camera_tfs,
                   global_transform, num_link_geometries_by_link_name,
                   link_subgeometry_local_tfs_by_link_name, texture_returns,
                   failed_calls>>

Tick == \E pose_bundle \in PoseBundles : DoPublish(pose_bundle)

\* What bsi.render_image hands back: the rendered image, or no image when
\* the capture failed.
RenderResults == {"image", "none"}

\* _DoPublish (lines 284-325) when the renderer answers the k-th
\* update_parameters call of the tick with a failure.  Line 304 is a bare
\* call statement: the value send_remote_call returns is dropped, and the
\* tick goes on as DoPublish does.
DoPublishUpdateFails(pose_bundle, k, accepted) ==
    /\ pc = "loaded"
    /\ current_publish_num < MaxTicks
    /\ ~accepted
    /\ lcm_visualization' = pose_bundle
    /\ \E tick \in {current_publish_num + 1} :
         \E u \in { PublishFrames(pose_bundle, 1, tick,
                                  [calls |-> <<>>, ok |-> TRUE]) } :
             /\ k \in 1..Len(u.calls)
             /\ failed_calls' = failed_calls \cup {Len(stream) + k}
             /\ IF u.ok
                THEN /\ stream' = stream \o
                           PublishSequence(u.calls, RenderCalls(0, tick),
                                           SaveCalls(current_publish_num, tick))
                     /\ published_scene' =
                           (IF current_publish_num = 0 THEN TRUE
                            ELSE published_scene)
                     /\ current_publish_num' = current_publish_num + 1
                     /\ pc' = pc
                ELSE /\ stream' = stream \o u.calls
                     /\ pc' = "publish_failed"
                     /\ UNCHANGED <<current_publish_num, published_scene>>
    /\ UNCHANGED <<load_robot_msg, material_overrides, camera_tfs,
                   global_transform, num_link_geometries_by_link_name,
                   link_subgeometry_local_tfs_by_link_name, texture_returns>>

TickUpdateFails ==
    \E pose_bundle \in PoseBundles, k \in 1..(MaxLinks * MaxGeoms),
       accepted \in Responses :
        DoPublishUpdateFails(pose_bundle, k, accepted)

\* _DoPublish (lines 284-325) when render_image hands back no image for
\* camera i.  Line 317 passes whatever came back to plt.imshow, which
\* raises on a value that is not an image; nothing in _DoPublish catches
\* it, so the tick ends there: the cameras after i are not rendered, the
\* scene is not saved and the counter is not incremented.
DoPublishRenderFails(pose_bundle, i, im) ==
    /\ pc = "loaded"
    /\ current_publish_num < MaxTicks
    /\ im # "image"
    /\ i < Len(camera_tfs)
    /\ lcm_visualization' = pose_bundle
    /\ \E tick \in {current_publish_num + 1} :
         \E u \in { PublishFrames(pose_bundle, 1, tick,
                                  [calls |-> <<>>, ok |-> TRUE]) } :
             /\ u.ok
             /\ stream' = stream \o u.calls
                              \o SubSeq(RenderCalls(0, tick), 1, i + 1)
             /\ failed_calls' =
                    failed_calls \cup {Len(stream) + Len(u.calls) + i + 1}
    /\ pc' = "publish_failed"
    /\ UNCHANGED <<load_robot_msg, material_overrides, camera_tfs,
                   global_transform, num_link_geometries_by_link_name,
                   link_subgeometry_local_tfs_by_link_name, texture_returns,
                   current_publish_num, published_scene>>

TickRenderFails ==
    \E pose_bundle \in PoseBundles, i \in 0..(MaxCams - 1),
       im \in RenderResults :
        DoPublishRenderFails(pose_bundle, i, im)

\* ---------------------------------------------------------- specification
\* __init__ (lines 82-116): the counter at 0, the arguments stored, nothing
\* sent yet
Init ==
    /\ \E k \in 0..MaxLinks, malformed \in BOOLEAN :
         /\ k + (IF malformed THEN 1 ELSE 0) <= MaxLinks
         /\ \E ids \in IdLists(k), geoms \in GeomLists(k, MaxGeoms) :
              load_robot_msg = LoadMessage(ids, geoms, malformed)
    /\ \E cfg \in Configurations :
         /\ material_overrides = cfg.material_overrides
         /\ camera_tfs = cfg.camera_tfs
         /\ global_transform = cfg.global_transform
    /\ lcm_visualization = <<>>
    /\ pc = "constructed"
    /\ stream = <<>>
    /\ num_link_geometries_by_link_name = EmptyDict
    /\ link_subgeometry_local_tfs_by_link_name = EmptyDict
    /\ current_publish_num = 0
    /\ published_scene = FALSE
    /\ texture_returns = {}
    /\ failed_calls = {}

Next == Load \/ Tick

Spec == Init /\ [][Next]_vars

\* A box with alpha 1 whose local pose is the identity.
BoxAtOrigin ==
    [type |-> "BOX", color |-> <<1, 0, 0, 1>>,
     tf |-> Identity, string_data |-> <<>>]

\* Geometry lists of bodies that are posed: the lone box at the origin, a
\* hidden record ahead of two visible ones, a box and a textured mesh, an
\* unsupported record ahead of a box.
PosedGeomLists ==
    { <<BoxAtOrigin>>,
      <<SphereCollision, BoxRed, MeshPlain>>,
      <<BoxRed, MeshTextured>>,
      <<Capsule, BoxAtOrigin>> }

\* __init__ (lines 82-116) before a load message of one to MaxLinks posed
\* bodies
InitPosed ==
    /\ \E k \in 1..MaxLinks :
         \E ids \in IdLists(k), geoms \in SeqsOfLen(PosedGeomLists, k) :
             load_robot_msg = LoadMessage(ids, geoms, FALSE)
    /\ \E cfg \in Configurations :
         /\ material_overrides = cfg.material_overrides
         /\ camera_tfs = cfg.camera_tfs
         /\ global_transform = cfg.global_transform
    /\ lcm_visualization = <<>>
    /\ pc = "constructed"
    /\ stream = <<>>
    /\ num_link_geometries_by_link_name = EmptyDict
    /\ link_subgeometry_local_tfs_by_link_name = EmptyDict
    /\ current_publish_num = 0
    /\ published_scene = FALSE
    /\ texture_returns = {}
    /\ failed_calls = {}

SpecPosed == InitPosed /\ [][Next]_vars

\* the posed bodies with a renderer that may answer a call of a tick with a
\* failure
NextFaulty == Load \/ Tick \/ TickUpdateFails \/ TickRenderFails

SpecFaulty == InitPosed /\ [][NextFaulty]_vars

\* ------------------------------------------------------------- properties
Calls == 1..Len(stream)

IsRegistration(c) == c.fn \in {"register_material", "register_object"}

IsCameraCall(c) == c.fn \in {"register_camera", "configure_rendering"}

\* load() ran to its end
LoadFinished == pc \in {"loaded", "publish_failed"}

\* the ticks begun so far (the last one may have ended in an exception)
TicksStarted ==
    current_publish_num + (IF pc = "publish_failed" THEN 1 ELSE 0)

\* the calls to fn issued for body b during tick t (0: load()), in order
CallsOf(fn, t, b) ==
    SelectSeq(stream, LAMBDA c : c.fn = fn /\ c.tick = t /\ c.body = b)

NamesOf(calls) == [k \in 1..Len(calls) |-> calls[k].name]

\* the geometry records load() reaches, as <<link, index>> with the index
\* counted from 0
Geoms ==
    { g \in (1..Len(load_robot_msg)) \X (0..MaxGeoms) :
        /\ g[2] < Len(load_robot_msg[g[1]].geom)
        /\ HasDelim(load_robot_msg[g[1]].name) }

Alpha(g) == load_robot_msg[g[1]].geom[g[2] + 1].color[4]

VisibleGeoms == { g \in Geoms : Alpha(g) # 0 }

DerivedName(g) ==
    LET link == load_robot_msg[g[1]]
        pn == parse_name(link.name)
    IN  format_geom_name(pn.source_name, pn.frame_name, link.robot_num, g[2])

\* the positions of the calls to fn
PositionsOf(fn) == { p \in Calls : stream[p].fn = fn }

\* the register_material calls that name this key
MaterialCalls(key) ==
    { p \in Calls :
        stream[p].fn = "register_material" /\ stream[p].name = key }

\* C1: on every tick and for every body of the pose bundle, the object
\* names of the update_parameters calls issued for the body are, in order,
\* the object names load() registered for that body, and the k-th update
\* carries global . body pose . local transform of the k-th registered
\* geometry.
C1_UpdatesMatchRegistration ==
    \A t \in 1..TicksStarted, b \in 1..Len(lcm_visualization) :
        LET updates == CallsOf("update_parameters", t, b)
            objects == CallsOf("register_object", 0, b)
        IN  /\ NamesOf(updates) = NamesOf(objects)
            /\ t = TicksStarted =>
                 \A k \in 1..Len(updates) :
                     updates[k].tf =
                         multiply(global_transform,
                             multiply(lcm_visualization[b].pose,
                                      objects[k].tf))

\* C2: load() registers as many objects as there are records with nonzero
\* alpha, and no remote call (material, object, update) ever names a record
\* whose alpha is zero.
C2_OnlyVisibleRecordsReachRenderer ==
    /\ LoadFinished =>
         Cardinality(PositionsOf("register_object"))
             = Cardinality(VisibleGeoms)
    /\ \A g \in Geoms :
         Alpha(g) = 0 =>
             \A p \in Calls :
                 /\ stream[p].name # <<"obj_">> \o DerivedName(g)
                 /\ stream[p].name # <<"material_">> \o DerivedName(g)

\* the first override rule, in declaration order, whose regex matches
FirstMatchingRule(name) ==
    material_overrides[
        CHOOSE k \in 1..Len(material_overrides) :
            /\ match(material_overrides[k].pattern, name)
            /\ \A m \in 1..(k - 1) :
                   ~match(material_overrides[m].pattern, name)]

\* the material a renderer that overwrites by name holds under this key:
\* the one of the last register_material call naming it
HeldMaterial(key) ==
    stream[CHOOSE p \in MaterialCalls(key) :
               \A q \in MaterialCalls(key) : q <= p]

\* C3: at the end of load() the material held under the key of a geometry
\* whose name some override rule matches carries the arguments of the first
\* matching rule.
C3_FirstMatchingRuleWins ==
    LoadFinished =>
        \A g \in VisibleGeoms :
            (\E k \in 1..Len(material_overrides) :
                 match(material_overrides[k].pattern, DerivedName(g)))
            => LET held == HeldMaterial(<<"material_">> \o DerivedName(g))
                   rule == FirstMatchingRule(DerivedName(g))
               IN  /\ held.type = rule.args.material_type
                   /\ held.path = rule.args.path

\* C4: two different visible geometries of one load never get the same
\* derived name, so no two register_object calls share a name or a
\* material key.
C4_DerivedNamesUnique ==
    /\ \A g, h \in VisibleGeoms : g # h => DerivedName(g) # DerivedName(h)
    /\ \A p, q \in PositionsOf("register_object") :
         p # q => /\ stream[p].name # stream[q].name
                  /\ stream[p].material # stream[q].material

\* two bodies with the same link name (another model instance) and two
\* bodies with the same frame name (another source) both have an object
C4_Witness ==
    /\ pc = "loaded"
    /\ \E p, q \in PositionsOf("register_object") :
         /\ stream[p].body # stream[q].body
         /\ \/ load_robot_msg[stream[p].body].name
                  = load_robot_msg[stream[q].body].name
            \/ parse_name(load_robot_msg[stream[p].body].name).source_name
                  # parse_name(load_robot_msg[stream[q].body].name).source_name

\* C5: every register_material and register_object call for a body comes
\* before every update_parameters call for that body.
C5_RegistrationBeforeUpdate ==
    \A q \in PositionsOf("update_parameters") :
        \A p \in Calls :
            IsRegistration(stream[p]) /\ stream[p].body = stream[q].body
            => p < q

C5_Witness ==
    \E p \in PositionsOf("register_object"),
       q \in PositionsOf("update_parameters") :
        /\ stream[q].tick = 2
        /\ stream[p].body = stream[q].body

\* C6: before every register_object call of load() the material key it
\* references has been registered, and no register_material call for that
\* key follows it.
C6_MaterialBeforeObject ==
    \A q \in PositionsOf("register_object") :
        /\ MaterialCalls(stream[q].material) # {}
        /\ \A p \in MaterialCalls(stream[q].material) : p < q

\* an object whose key went through the texture probe and the fallback
C6_Witness ==
    \E q \in PositionsOf("register_object") :
        /\ Cardinality(MaterialCalls(stream[q].material)) = 2
        /\ \E p \in MaterialCalls(stream[q].material) :
               stream[p].type = "color"

\* C7: load() issues exactly one register_material call for the material
\* key of every geometry it registers.
C7_OneMaterialCallPerKey ==
    \A q \in PositionsOf("register_object") :
        Cardinality(MaterialCalls(stream[q].material)) = 1

\* the save_current_scene calls sent so far
SaveCallPositions == PositionsOf("save_current_scene")

\* C8: once a tick has completed, save_current_scene has been sent exactly
\* once, during the first tick; later ticks send none.
C8_SceneSavedOnceOnFirstTick ==
    /\ current_publish_num = 0 => SaveCallPositions = {}
    /\ current_publish_num >= 1 =>
         /\ Cardinality(SaveCallPositions) = 1
         /\ \A p \in SaveCallPositions : stream[p].tick = 1

C8_Witness ==
    /\ current_publish_num >= 2
    /\ Cardinality(SaveCallPositions) = 1

\* the calls load() sent
LoadCallPositions == { p \in Calls : stream[p].tick = 0 }

\* C9: initialize_scene opens the stream; every register_material and
\* register_object call precedes every register_camera and
\* configure_rendering call; a load() that ran to its end sent
\* set_environment_map last, after every camera call, and only once.
C9_LoadPhaseOrder ==
    /\ stream # <<>> => stream[1].fn = "initialize_scene"
    /\ PositionsOf("initialize_scene") \subseteq {1}
    /\ \A q \in LoadCallPositions :
         IsCameraCall(stream[q]) =>
             \A p \in LoadCallPositions :
                 IsRegistration(stream[p]) => p < q
    /\ \A q \in PositionsOf("set_environment_map") :
         \A p \in LoadCallPositions :
             IsCameraCall(stream[p]) => p < q
    /\ LoadFinished =>
         /\ Cardinality(PositionsOf("set_environment_map")) = 1
         /\ \A q \in PositionsOf("set_environment_map") :
                \A p \in LoadCallPositions : p <= q

C9_Witness ==
    /\ pc = "loaded"
    /\ \E p \in PositionsOf("register_object"),
          q \in PositionsOf("configure_rendering") :
         stream[q].name = <<"cam_", "1">>

\* C10: within a tick every update_parameters call comes before every
\* render_image call.
C10_UpdatesBeforeRenders ==
    \A p \in PositionsOf("update_parameters"),
       q \in PositionsOf("render_image") :
        stream[p].tick = stream[q].tick => p < q

C10_Witness ==
    \E p \in PositionsOf("update_parameters"),
       q \in PositionsOf("render_image") :
        /\ stream[p].tick = 2
        /\ stream[q].tick = 2

\* C11: the publish counter is the number of ticks that ran to their end,
\* and any two render_image calls, which differ in camera or in tick, name
\* different output files.
C11_CapturePathsDistinct ==
    /\ pc \in {"constructed", "load_failed"} => current_publish_num = 0
    /\ \A p \in PositionsOf("render_image") :
         /\ stream[p].tick <= current_publish_num
         /\ \A q \in PositionsOf("render_image") :
              p # q =>
                  /\ \/ stream[p].name # stream[q].name
                     \/ stream[p].tick # stream[q].tick
                  /\ stream[p].path # stream[q].path

\* two cameras captured on two ticks
C11_Witness ==
    \E p, q, r \in PositionsOf("render_image") :
        /\ stream[p].name # stream[q].name
        /\ stream[p].tick = stream[q].tick
        /\ stream[r].name = stream[p].name
        /\ stream[r].tick # stream[p].tick

\* what the update_parameters calls of tick t in the call sequence s tell
\* the renderer: object name, rotation mode and pose, in order
UpdatesOfTick(s, t) ==
    LET u == SelectSeq(s, LAMBDA c : c.fn = "update_parameters" /\ c.tick = t)
    IN  [k \in 1..Len(u) |-> <<u[k].name, u[k].type, u[k].tf>>]

\* C12: a tick that is given the pose bundle of the tick before it runs to
\* its end as that one did and sends the same update_parameters calls
\* (names, rotation mode, poses) in the same order.
C12_SameBundleSameUpdates ==
    [][ (/\ current_publish_num >= 1
         /\ lcm_visualization' = lcm_visualization)
        => /\ current_publish_num' = current_publish_num + 1
           /\ UpdatesOfTick(stream', current_publish_num + 1)
                  = UpdatesOfTick(stream, current_publish_num) ]_vars

\* two ticks with the same bundle that moved something, after a load with
\* a turned global transform
C12_Witness ==
    /\ current_publish_num = 2
    /\ global_transform # Identity
    /\ UpdatesOfTick(stream, 1) # <<>>
    /\ UpdatesOfTick(stream, 1) = UpdatesOfTick(stream, 2)

\* the local pose the load message gives geometry g
LocalPose(g) == load_robot_msg[g[1]].geom[g[2] + 1].tf

\* the scenario of C13: one body holding one box of alpha 1 at the local
\* identity, identity global transform, the body at translate(1, 0, 0)
C13_Scenario ==
    /\ Len(load_robot_msg) = 1
    /\ load_robot_msg[1].geom = <<BoxAtOrigin>>
    /\ global_transform = Identity
    /\ TicksStarted >= 1
    /\ lcm_visualization[1].pose = [r |-> 0, x |-> 1, y |-> 0]

\* C13: an update_parameters call that names a visible geometry carries
\* global transform . body pose . local pose of that geometry (checked on
\* the tick whose pose bundle is at the input port); in the scenario the
\* tick sends one update, located at (1, 0, 0) and not rotated.
C13_UpdatePoseIsComposition ==
    /\ \A p \in PositionsOf("update_parameters") :
         stream[p].tick = TicksStarted =>
             \A g \in VisibleGeoms :
                 (/\ g[1] = stream[p].body
                  /\ stream[p].name = <<"obj_">> \o DerivedName(g))
                 => stream[p].tf =
                        multiply(global_transform,
                            multiply(lcm_visualization[g[1]].pose,
                                     LocalPose(g)))
    /\ C13_Scenario =>
         LET u == UpdatesOfTick(stream, TicksStarted)
         IN  /\ Len(u) = 1
             /\ u[1][3] = [r |-> 0, x |-> 1, y |-> 0]

\* the record of geometry g in the load message
Record(g) == load_robot_msg[g[1]].geom[g[2] + 1]

\* a record of a kind that is none of the four primitives load() draws
Unsupported(g) ==
    Record(g).type \notin {"BOX", "SPHERE", "CYLINDER", "MESH"}

\* a visible geometry of a supported type whose name no override rule
\* matches
Unmatched(g) ==
    /\ g \in VisibleGeoms
    /\ ~Unsupported(g)
    /\ \A k \in 1..Len(material_overrides) :
           ~match(material_overrides[k].pattern, DerivedName(g))

\* a mesh beside which the texture file exists
HasTexture(g) ==
    /\ Record(g).type = "MESH"
    /\ SiblingPath(Record(g).string_data, <<"p", "n", "g">>) \in ExistingFiles

\* the materials registered under the key of g, in order, as
\* <<material_type, path, color>>
MaterialsOf(g) ==
    LET m == SelectSeq(stream,
                 LAMBDA c : /\ c.fn = "register_material"
                            /\ c.name = <<"material_">> \o DerivedName(g))
    IN  [k \in 1..Len(m) |-> <<m[k].type, m[k].path, m[k].color>>]

TexturedMaterial(g) ==
    <<"color_texture", SiblingPath(Record(g).string_data, <<"p", "n", "g">>),
      <<>>>>

FlatMaterial(g) == <<"color", <<>>, Record(g).color>>

\* load() fails only on a body name without delimiter
LoadFailsOnlyOnName ==
    pc = "load_failed" =>
        \E i \in 1..Len(load_robot_msg) : ~HasDelim(load_robot_msg[i].name)

MalformedName ==
    \E i \in 1..Len(load_robot_msg) : ~HasDelim(load_robot_msg[i].name)

\* C15: when a body name of the load message lacks the delimiter, load()
\* never completes and, once it has failed, it has sent no
\* register_material, register_object, register_camera or
\* set_environment_map call.
C15_MalformedNameBuildsNothing ==
    MalformedName =>
        /\ pc \in {"constructed", "load_failed"}
        /\ \A p \in Calls :
               stream[p].fn \notin {"register_material", "register_object",
                                    "register_camera", "set_environment_map"}

\* the register_object calls that name geometry g
ObjectCalls(g) ==
    { p \in PositionsOf("register_object") :
        stream[p].name = <<"obj_">> \o DerivedName(g) }

\* C16: a load() over well-formed names runs to its end whatever the kinds
\* of the records; it sends no register_object for a record of an
\* unsupported kind and one for every visible record of a supported kind
\* (those after an unsupported record included), registers and configures
\* every camera and sets the environment map.
C16_UnsupportedKindSkipped ==
    (pc # "constructed" /\ ~MalformedName) =>
        /\ pc # "load_failed"
        /\ \A g \in VisibleGeoms :
               Cardinality(ObjectCalls(g)) = IF Unsupported(g) THEN 0 ELSE 1
        /\ \A i \in 0..(Len(camera_tfs) - 1) :
               /\ \E p \in PositionsOf("register_camera") :
                      stream[p].name = <<"cam_">> \o str(i)
               /\ \E p \in PositionsOf("configure_rendering") :
                      stream[p].name = <<"cam_">> \o str(i)
        /\ PositionsOf("set_environment_map") # {}

\* an unsupported record ahead of a supported one in its body and of a
\* supported one in a later body, with several cameras
C16_Witness ==
    /\ pc = "loaded"
    /\ Len(camera_tfs) >= 2
    /\ \E g, h, k \in VisibleGeoms :
         /\ Unsupported(g) /\ ~Unsupported(h) /\ ~Unsupported(k)
         /\ h[1] = g[1] /\ h[2] > g[2]
         /\ k[1] > g[1]

\* the number of records of link i whose alpha is not zero
VisibleCount(i) == Cardinality({ g \in VisibleGeoms : g[1] = i })

\* the links whose entries the dictionaries hold after load(): of several
\* links with one name the last
StoredLinks ==
    { i \in 1..Len(load_robot_msg) :
        \A k \in (i + 1)..Len(load_robot_msg) :
            load_robot_msg[k].name # load_robot_msg[i].name }

\* C17: after load() the count stored for a body is the number of its
\* visible records and the length of its cached transform list, and no
\* tick ends in an exception.
C17_CountMatchesCachedTransforms ==
    /\ LoadFinished =>
         \A i \in StoredLinks :
             LET name == load_robot_msg[i].name
             IN  /\ num_link_geometries_by_link_name[name] = VisibleCount(i)
                 /\ num_link_geometries_by_link_name[name]
                     = Len(link_subgeometry_local_tfs_by_link_name[name])
    /\ pc # "publish_failed"

\* the number of visible records ahead of g in its body
VisibleRank(g) ==
    Cardinality({ h \in VisibleGeoms : h[1] = g[1] /\ h[2] < g[2] })

\* the name of g when the index counts the visible records only
RankedName(g) ==
    LET link == load_robot_msg[g[1]]
        pn == parse_name(link.name)
    IN  format_geom_name(pn.source_name, pn.frame_name, link.robot_num,
                         VisibleRank(g))

\* C18: the objects load() registers for a body are named by the rank of
\* their record among the visible records of the body, so a record of alpha
\* zero takes no index.
C18_IndexCountsVisibleRecords ==
    \A b \in 1..Len(load_robot_msg) :
        { stream[p].name :
            p \in { q \in PositionsOf("register_object") :
                      stream[q].body = b } }
        \subseteq
        { <<"obj_">> \o RankedName(g) :
            g \in { h \in VisibleGeoms : h[1] = b } }

\* the update_parameters calls a tick sends when every loop runs to its
\* end: one per stored record of every body of the pose bundle
UpdatesPerTick(bundle) ==
    LET n(i) == num_link_geometries_by_link_name[bundle[i].name]
        sum[i \in 0..Len(bundle)] == IF i = 0 THEN 0 ELSE sum[i - 1] + n(i)
    IN  sum[Len(bundle)]

\* the positions of the calls to fn issued during tick t
CallsInTick(fn, t) == { p \in PositionsOf(fn) : stream[p].tick = t }

\* tick t ended in the index error of a body whose stored count differs
\* from the length of its cached transform list (see C17)
EndedInIndexError(t) ==
    /\ pc = "publish_failed"
    /\ t = TicksStarted
    /\ \E i \in 1..Len(load_robot_msg) :
           num_link_geometries_by_link_name[load_robot_msg[i].name]
           # Len(link_subgeometry_local_tfs_by_link_name[
                   load_robot_msg[i].name])

\* tick t ran to its end: every update sent, every camera rendered, the
\* counter advanced
RanToEnd(t) ==
    /\ t <= current_publish_num
    /\ Cardinality(CallsInTick("update_parameters", t))
           = UpdatesPerTick(lcm_visualization)
    /\ Cardinality(CallsInTick("render_image", t)) = Len(camera_tfs)

\* the part of C19 about update_parameters: the tick of a failed
\* update_parameters call runs to its end
UpdateFailureConfined ==
    \A p \in failed_calls :
        stream[p].fn = "update_parameters" =>
            EndedInIndexError(stream[p].tick) \/ RanToEnd(stream[p].tick)

\* C19: the tick in which a remote call failed, be it update_parameters or
\* render_image, still sends every update and renders every camera, runs
\* to its end and advances the publish counter, so that the next tick can
\* run (ticks over a body that raises the index error of C17 set aside).
C19_FailureConfined ==
    \A p \in failed_calls :
        EndedInIndexError(stream[p].tick) \/ RanToEnd(stream[p].tick)

\* the names cam_0, cam_1, ... of the configured cameras, in list order
CameraNames == [k \in 1..Len(camera_tfs) |-> <<"cam_">> \o str(k - 1)]

\* the cameras load() has registered
RegisteredCameras ==
    { stream[p].name : p \in PositionsOf("register_camera") }

\* load() registers every camera once, in list order, at global transform .
\* camera transform, each registration followed at once by the rendering
\* configuration of that camera; a load() that failed registers none
CamerasSetUpOnce ==
    /\ NamesOf(SelectSeq(stream, LAMBDA c : c.fn = "register_camera"))
           = (IF LoadFinished THEN CameraNames ELSE <<>>)
    /\ NamesOf(SelectSeq(stream, LAMBDA c : c.fn = "configure_rendering"))
           = (IF LoadFinished THEN CameraNames ELSE <<>>)
    /\ \A p \in PositionsOf("register_camera") :
           /\ stream[p + 1].fn = "configure_rendering"
           /\ stream[p + 1].name = stream[p].name
           /\ \E k \in 1..Len(camera_tfs) :
                  /\ stream[p].name = CameraNames[k]
                  /\ stream[p].tf = multiply(global_transform, camera_tfs[k])

\* no call of a tick registers, configures or moves a camera
CamerasStatic ==
    \A p \in Calls :
        stream[p].tick >= 1 =>
            /\ ~IsCameraCall(stream[p])
            /\ stream[p].fn = "update_parameters" =>
                   stream[p].name \notin RegisteredCameras

\* tick t renders every camera once, in list order
RendersEveryCamera(t) ==
    NamesOf(SelectSeq(stream,
                LAMBDA c : c.fn = "render_image" /\ c.tick = t))
        = CameraNames

\* C20: load() sets every camera up once, in list order, register_camera
\* followed at once by configure_rendering; every tick renders every camera
\* once, in list order, under a registered name; no tick registers,
\* configures or moves a camera.
C20_CamerasSetUpOnceRenderedEveryTick ==
    /\ CamerasSetUpOnce
    /\ CamerasStatic
    /\ \A t \in 1..TicksStarted : RendersEveryCamera(t)

\* the part of C20 that stands: as C20, for the ticks that ran to their end
CamerasRenderedEveryCompletedTick ==
    /\ CamerasSetUpOnce
    /\ CamerasStatic
    /\ \A t \in 1..current_publish_num : RendersEveryCamera(t)
    /\ \A p \in PositionsOf("render_image") :
           stream[p].name \in RegisteredCameras

\* C21: a step of _DoPublish leaves the two dictionaries of load(), the
\* override rules, the camera transforms and the global transform as they
\* were; it moves the publish counter by one or, when an exception ends it,
\* not at all, and it changes the published-scene flag only on the first
\* tick, to true.
C21_TickLeavesCatalogueUnchanged ==
    [][ pc = "loaded" =>
          /\ UNCHANGED <<num_link_geometries_by_link_name,
                         link_subgeometry_local_tfs_by_link_name,
                         material_overrides, camera_tfs, global_transform>>
          /\ current_publish_num' \in
                 {current_publish_num, current_publish_num + 1}
          /\ published_scene' # published_scene =>
                 /\ current_publish_num = 0
                 /\ current_publish_num' = 1
                 /\ published_scene' = TRUE ]_vars

\* two ticks run over a catalogue that holds cached transforms, with
\* override rules and several cameras configured
C21_Witness ==
    /\ current_publish_num = 2
    /\ published_scene
    /\ material_overrides # <<>>
    /\ Len(camera_tfs) >= 2
    /\ \E i \in 1..Len(load_robot_msg) :
           link_subgeometry_local_tfs_by_link_name[load_robot_msg[i].name]
               # <<>>
====
